---- MODULE Spec2Model ----
(***************************************************************************)
(* Model of src/app.py (OCT Master): the vision-model call                 *)
(* analyze_with_gpt, the response normalizer process_gpt_response and the  *)
(* part of the analyze_image callback that consumes its result.            *)
(*                                                                         *)
(* JSON values are tagged records [t |-> tag, v |-> payload]:              *)
(*   "dict" (payload: function from key to value), "str" (payload:         *)
(*   sequence of characters), "num", "null", "bool", "list".               *)
(* Python strings are sequences of one-character strings so that lower(),  *)
(* capitalize() and the substring test are computed character by           *)
(* character.                                                              *)
(***************************************************************************)
EXTENDS Naturals, Sequences, FiniteSets, TLC

VARIABLES
    pc,                 \* control location of the analyze_image callback
    attempts,           \* number of client.chat.completions.create calls made
    api_failed,         \* TRUE once a vision-model call has failed
    response,           \* the object bound to raw_response / response
    given,              \* value of that object when process_gpt_response was entered
    default_structure,  \* the local template of process_gpt_response
    eye,                \* loop variable of "for eye in [...]" (index in EyeKeys)
    ret,                \* which object process_gpt_response returned
    exc,                \* exception that escaped, "none" when none
    calls,              \* number of process_gpt_response calls made in a row
    cur,                \* which of two interleaved invocations is running
    parked,             \* the frame of the invocation that is not running
    objects             \* per invocation: its input, its template, what it touched

vars == <<pc, attempts, api_failed, response, given, default_structure, eye, ret, exc,
          calls, cur, parked, objects>>

\* what one callback run leaves alone: it makes one call, in one thread
one_call == <<calls, cur, parked, objects>>

----------------------------------------------------------------------------
(* Characters and Python's str methods                                     *)

EAcute == "é"
EAcuteUpper == "É"
EGrave == "è"
EGraveUpper == "È"

\* In the literals below "#" writes é, "@" writes É, "$" writes è, "%" writes È.
DecodeChar(c) ==
    CASE c = "#" -> EAcute
      [] c = "@" -> EAcuteUpper
      [] c = "$" -> EGrave
      [] c = "%" -> EGraveUpper
      [] OTHER -> c

Chars(s) == [i \in 1..Len(s) |-> DecodeChar(SubSeq(s, i, i))]

UpperAlpha == Chars("ABCDEFGHIJKLMNOPQRSTUVWXYZ@%")
LowerAlpha == Chars("abcdefghijklmnopqrstuvwxyz#$")

LowerChar(c) ==
    IF \E i \in 1..Len(UpperAlpha) : UpperAlpha[i] = c
    THEN LowerAlpha[CHOOSE i \in 1..Len(UpperAlpha) : UpperAlpha[i] = c]
    ELSE c

UpperChar(c) ==
    IF \E i \in 1..Len(LowerAlpha) : LowerAlpha[i] = c
    THEN UpperAlpha[CHOOSE i \in 1..Len(LowerAlpha) : LowerAlpha[i] = c]
    ELSE c

\* str.lower()
lower(s) == [i \in 1..Len(s) |-> LowerChar(s[i])]

\* str.capitalize(): first character upper-cased, the rest lower-cased
capitalize(s) == [i \in 1..Len(s) |-> IF i = 1 THEN UpperChar(s[i]) ELSE LowerChar(s[i])]

\* "sub in s" on two Python strings
Contains(sub, s) ==
    \E k \in 0..Len(s) :
        /\ k + Len(sub) <= Len(s)
        /\ \A i \in 1..Len(sub) : s[k + i] = sub[i]

----------------------------------------------------------------------------
(* JSON values                                                             *)

Str(s) == [t |-> "str", v |-> Chars(s)]
StrOf(cs) == [t |-> "str", v |-> cs]
Num(n) == [t |-> "num", v |-> n]
Null == [t |-> "null", v |-> 0]
List(xs) == [t |-> "list", v |-> xs]
Dict(f) == [t |-> "dict", v |-> f]
EmptyDict == Dict(<<>>)

IsDict(x) == x.t = "dict"
IsStr(x) == x.t = "str"
Keys(x) == DOMAIN x.v
HasKey(x, k) == IsDict(x) /\ k \in Keys(x)

\* d[k] = val on a dict
SetItem(d, k, val) ==
    Dict([j \in Keys(d) \cup {k} |-> IF j = k THEN val ELSE d.v[j]])


\* "k in x": key membership on a dict, substring test on a str, element test
\* on a list, TypeError on anything else
PyIn(k, x) ==
    CASE x.t = "dict" -> IF k \in Keys(x) THEN "yes" ELSE "no"
      [] x.t = "str" -> IF Contains(Chars(k), x.v) THEN "yes" ELSE "no"
      [] x.t = "list" -> IF \E i \in 1..Len(x.v) : x.v[i] = Str(k) THEN "yes" ELSE "no"
      [] OTHER -> "TypeError"

\* outcome of a statement: the object as the statement left it, and the
\* exception it raised ("none" when it completed)
Ok(x) == [val |-> x, exc |-> "none"]
Raise(x, e) == [val |-> x, exc |-> e]

----------------------------------------------------------------------------
(* process_gpt_response: the template and the tables                       *)

EyeKeys == <<"left_eye", "right_eye">>

DefaultEye ==
    Dict([dril |-> Dict([status |-> Str("Absente"), extent |-> Str("")]),
          oedeme |-> Dict([status |-> Str("Absent"), nb_logette |-> Str(""),
                           taille |-> Str(""), localisation |-> Str("")]),
          mle |-> Str("Continue"),
          ze |-> Str("Continue"),
          points_hyperreflectifs |-> Dict([status |-> Str("Absents"), nombre |-> Str(""),
                                           localisation |-> Str("")]),
          epaisseur_retinienne |-> Dict([central |-> Str(""), superieur |-> Str(""),
                                         inferieur |-> Str(""), nasal |-> Str(""),
                                         temporal |-> Str("")]),
          briding |-> Str("Absent"),
          decollement |-> Str("Absent")])

\* the right eye is a deep copy of the left one: an equal value
DefaultStructure == Dict([left_eye |-> DefaultEye, right_eye |-> DefaultEye])

\* the table with "large" translated like "grand"
taille_mapping_large_as_grand ==
    (Chars("small") :> Chars("petite")) @@
    (Chars("medium") :> Chars("grande")) @@
    (Chars("large") :> Chars("grande")) @@
    (Chars("petit") :> Chars("petite")) @@
    (Chars("grand") :> Chars("grande")) @@
    (Chars("<100") :> Chars("petite")) @@
    (Chars("100-200") :> Chars("grande")) @@
    (Chars(">200") :> Chars("volumineuse"))

taille_mapping ==
    (Chars("small") :> Chars("petite")) @@
    (Chars("medium") :> Chars("grande")) @@
    (Chars("large") :> Chars("volumineuse")) @@
    (Chars("petit") :> Chars("petite")) @@
    (Chars("grand") :> Chars("grande")) @@
    (Chars("<100") :> Chars("petite")) @@
    (Chars("100-200") :> Chars("grande")) @@
    (Chars(">200") :> Chars("volumineuse"))

\* the lookup falling back on the raw value instead of the lower-cased one
NormTailleRawFallback(raw) ==
    IF lower(raw) \in DOMAIN taille_mapping THEN taille_mapping[lower(raw)] ELSE raw

\* the lookup defaulting an unknown size to the smallest one
NormTailleUnknownAsSmall(raw) ==
    IF lower(raw) \in DOMAIN taille_mapping THEN taille_mapping[lower(raw)]
    ELSE Chars("petite")

\* taille = raw.lower(); taille_mapping.get(taille, taille)
NormTaille(raw) ==
    LET taille == lower(raw)
    IN  IF taille \in DOMAIN taille_mapping THEN taille_mapping[taille] ELSE taille

\* s.capitalize(), kept when it is one of the two labels, otherwise decided
\* by '"present" in s.lower()'
NormStatus(s, present, absent) ==
    LET c == capitalize(s)
    IN  IF c \in {Chars(present), Chars(absent)} THEN c
        ELSE IF Contains(Chars("present"), lower(c)) THEN Chars(present)
        ELSE Chars(absent)

\* the if / elif / elif cascade on value.lower()
NormMembrane(value) ==
    LET l == lower(value)
    IN  IF Contains(Chars("continu"), l) THEN Chars("Continue")
        ELSE IF Contains(Chars("partiel"), l) THEN Chars("Partiellement interrompue")
        ELSE IF Contains(Chars("complet"), l) THEN Chars("Compl$tement interrompue")
        ELSE value

\* the string copied into every sector
WrapThicknessEverySector(s) ==
    Dict([central |-> s, superieur |-> s, inferieur |-> s, nasal |-> s, temporal |-> s])

\* the structured form a string thickness is converted to
WrapThickness(s) ==
    Dict([central |-> s, superieur |-> Str(""), inferieur |-> Str(""),
          nasal |-> Str(""), temporal |-> Str("")])

----------------------------------------------------------------------------
(* process_gpt_response: the statements of the loop body, on eye_data      *)

\* 'if f in eye_data: if isinstance(eye_data[f], dict):
\*      eye_data[f]["status"] = eye_data[f]["status"].capitalize() ...'
\* for f = "dril" and f = "points_hyperreflectifs"
StandardizeStatus(eye_data, f, present, absent) ==
    LET has == PyIn(f, eye_data)
    IN  IF has = "TypeError" THEN Raise(eye_data, "TypeError")
        ELSE IF has = "no" THEN Ok(eye_data)
        ELSE IF ~IsDict(eye_data) THEN Raise(eye_data, "TypeError")
        ELSE LET d == eye_data.v[f]
             IN  IF ~IsDict(d) THEN Ok(eye_data)
                 ELSE IF "status" \notin Keys(d) THEN Raise(eye_data, "KeyError")
                 ELSE IF ~IsStr(d.v["status"]) THEN Raise(eye_data, "AttributeError")
                 ELSE Ok(SetItem(eye_data, f,
                         SetItem(d, "status", StrOf(NormStatus(d.v["status"].v, present, absent)))))

StandardizeDril(eye_data) == StandardizeStatus(eye_data, "dril", "Pr#sente", "Absente")

StandardizePoints(eye_data) ==
    StandardizeStatus(eye_data, "points_hyperreflectifs", "Pr#sents", "Absents")

\* the oedeme block: the status as above, then the taille of the same object
StandardizeOedeme(eye_data) ==
    LET st == StandardizeStatus(eye_data, "oedeme", "Pr#sent", "Absent")
    IN  IF st.exc # "none" \/ ~HasKey(st.val, "oedeme") \/ ~IsDict(st.val.v["oedeme"])
        THEN st
        ELSE LET o == st.val.v["oedeme"]
             IN  IF "taille" \notin Keys(o) THEN st
                 ELSE IF ~IsStr(o.v["taille"]) THEN Raise(st.val, "AttributeError")
                 ELSE Ok(SetItem(st.val, "oedeme",
                         SetItem(o, "taille", StrOf(NormTaille(o.v["taille"].v)))))

\* one pass of 'for field in ["mle", "ze"]'
StandardizeMembrane(eye_data, field) ==
    LET has == PyIn(field, eye_data)
    IN  IF has = "TypeError" THEN Raise(eye_data, "TypeError")
        ELSE IF has = "no" THEN Ok(eye_data)
        ELSE IF ~IsDict(eye_data) THEN Raise(eye_data, "TypeError")
        ELSE LET value == eye_data.v[field]
             IN  IF ~IsStr(value) THEN Raise(eye_data, "AttributeError")
                 ELSE Ok(SetItem(eye_data, field, StrOf(NormMembrane(value.v))))

\* 'if "epaisseur_retinienne" in eye_data: if isinstance(..., str): ...'
FormatThickness(eye_data) ==
    LET has == PyIn("epaisseur_retinienne", eye_data)
    IN  IF has = "TypeError" THEN Raise(eye_data, "TypeError")
        ELSE IF has = "no" THEN Ok(eye_data)
        ELSE IF ~IsDict(eye_data) THEN Raise(eye_data, "TypeError")
        ELSE IF IsStr(eye_data.v["epaisseur_retinienne"])
             THEN Ok(SetItem(eye_data, "epaisseur_retinienne",
                             WrapThickness(eye_data.v["epaisseur_retinienne"])))
             ELSE Ok(eye_data)

\* an incomplete record replaced by the whole default record
AddMissingWholeRecord(eye_data, defaults) ==
    IF IsDict(eye_data)
    THEN IF Keys(defaults) \subseteq Keys(eye_data) THEN Ok(eye_data) ELSE Ok(defaults)
    ELSE Raise(eye_data, "TypeError")

\* 'for key, default_value in default_structure[eye].items():
\*      if key not in eye_data: eye_data[key] = default_value'
AddMissing(eye_data, defaults) ==
    IF IsDict(eye_data)
    THEN Ok(Dict([k \in Keys(eye_data) \cup Keys(defaults) |->
                    IF k \in Keys(eye_data) THEN eye_data.v[k] ELSE defaults.v[k]]))
    ELSE IF \E k \in Keys(defaults) : PyIn(k, eye_data) # "yes"
         THEN Raise(eye_data, "TypeError")
         ELSE Ok(eye_data)

\* the error marker never looked at
ErrorCheckSkipped(resp) == IF IsDict(resp) \/ IsStr(resp) \/ resp.t = "list" THEN "no" ELSE "TypeError"

\* '"error" in response', then the f-string's response['error']
ErrorCheck(resp) ==
    LET has == PyIn("error", resp)
    IN  IF has = "TypeError" THEN "TypeError"
        ELSE IF has = "no" THEN "no"
        ELSE IF IsDict(resp) THEN "yes"
        ELSE "TypeError"

----------------------------------------------------------------------------
(* What the vision model may answer: decoded JSON values                   *)

\* most top-level fields a generated eye object supplies
MaxFields == 2

DrilStatusInputs == {"Pr#sente", "PR@SENTE", "Present", " pr#sente", "non"}
OedemeStatusInputs == {"Pr#sent", "absent", "oui"}
PointsStatusInputs == {"Pr#sents", "ABSENTS", "present"}
TailleInputs ==
    {"small", "Small", "<100", "petit", "PETIT", "medium", "large", ">200",
     "grand", "100-200", "huge", "Huge", "Petite", "@norme", ""}

DrilInputs ==
    {Str("Pr#sente"), EmptyDict, Dict([status |-> Null]), Dict([extent |-> Str("diffuse")]),
     Dict([status |-> Str("Pr#sente"), extent |-> Str("diffuse")])}
    \cup {Dict([status |-> Str(s)]) : s \in DrilStatusInputs}

OedemeInputs ==
    {Str("Absent"), Dict([taille |-> Str("small")]),
     Dict([status |-> Str("Pr#sent"), taille |-> Null]),
     Dict([status |-> Str("Pr#sent"), taille |-> Num(150)]),
     Dict([status |-> Str("Pr#sent"), nb_logette |-> Str("3"), taille |-> Str("Grande"),
           localisation |-> Str("fov#olaire")])}
    \cup {Dict([status |-> Str(s)]) : s \in OedemeStatusInputs}
    \cup {Dict([status |-> Str("Pr#sent"), taille |-> Str(t)]) : t \in TailleInputs}

MembraneInputs ==
    {Str("Continue"), Str("CONTINUE"), Str("discontinue"), Str("Partiellement interrompue"),
     Str("PARTIELLEMENT INTERROMPUE"), Str("Compl$tement interrompue"),
     Str("COMPL%TEMENT INTERROMPUE"), Str("completely interrupted"), Str("normale"), Null}

ZeInputs == {Str("partielle"), Str("Continue"), Num(1)}

PointsInputs ==
    {Str("Absents"), EmptyDict,
     Dict([status |-> Str("Pr#sents"), nombre |-> Str("10"), localisation |-> Str("choro#dien")])}
    \cup {Dict([status |-> Str(s)]) : s \in PointsStatusInputs}

ThicknessInputs ==
    {Str("250um central"), Str(""), Num(250), Null, Dict([central |-> Str("250")]),
     Dict([central |-> Str("250"), superieur |-> Str("300"), inferieur |-> Str("310"),
           nasal |-> Str("320"), temporal |-> Str("290")])}

FieldInputs ==
    [dril |-> DrilInputs, oedeme |-> OedemeInputs, mle |-> MembraneInputs, ze |-> ZeInputs,
     points_hyperreflectifs |-> PointsInputs, epaisseur_retinienne |-> ThicknessInputs,
     briding |-> {Str("Pr#sent")}]

\* the eye objects that supply exactly the fields K
EyesWith(K) ==
    {Dict(f) : f \in {g \in [K -> UNION {FieldInputs[k] : k \in K}] :
                        \A k \in K : g[k] \in FieldInputs[k]}}

EyesUpTo(n) ==
    UNION {EyesWith(K) : K \in {L \in SUBSET (DOMAIN FieldInputs) : Cardinality(L) <= n}}

\* an eye as the prompt asks for it, in the model's own casing
FullEye ==
    Dict([dril |-> Dict([status |-> Str("pr#sente"), extent |-> Str("diffuse")]),
          oedeme |-> Dict([status |-> Str("pr#sent"), nb_logette |-> Str("2"),
                           taille |-> Str("Volumineuse"), localisation |-> Str("fov#olaire")]),
          mle |-> Str("partiellement interrompue"),
          ze |-> Str("continue"),
          points_hyperreflectifs |-> Dict([status |-> Str("absents"), nombre |-> Str(""),
                                           localisation |-> Str("")]),
          epaisseur_retinienne |-> Str("250um central")])

\* eye values that are no objects
NonObjectEyes ==
    {Str("normal"), Str("dril absente"), Null, Num(0), List(<<>>), List(<<Str("mle")>>)}

Eyes == EyesUpTo(MaxFields) \cup {FullEye} \cup NonObjectEyes

OtherEyes == {EmptyDict, FullEye, Null, Dict([mle |-> Str("Continue")])}

\* decoded values that are no objects
NonObjectReplies ==
    {Null, Num(1), Str("ok"), Str("error: no image"), List(<<>>), List(<<Str("error")>>)}

Replies ==
    NonObjectReplies
    \cup {EmptyDict}
    \cup {Dict([left_eye |-> e]) : e \in Eyes}
    \cup {Dict([right_eye |-> e]) : e \in EyesUpTo(1) \cup {FullEye} \cup NonObjectEyes}
    \cup {Dict([left_eye |-> e, right_eye |-> o]) : e \in EyesUpTo(1) \cup {FullEye}, o \in OtherEyes}
    \cup {Dict([error |-> Str("refused")]),
          Dict([error |-> Null, left_eye |-> FullEye, right_eye |-> FullEye]),
          Dict([error |-> Str("partial"), left_eye |-> Dict([dril |-> EmptyDict])])}

\* the briding / decollement State values of the form: None or a radio label
None == "None"
FormStates ==
    {[left_briding |-> None, left_decollement |-> None,
      right_briding |-> None, right_decollement |-> None],
     [left_briding |-> "Pr#sent", left_decollement |-> "Absent",
      right_briding |-> None, right_decollement |-> "Pr#sent"]}

----------------------------------------------------------------------------
(* The analyze_image callback, statement by statement                      *)

Init ==
    /\ pc = "analyze_image"
    /\ attempts = 0
    /\ api_failed = FALSE
    /\ response = Null
    /\ given = Null
    /\ default_structure = Null
    /\ eye = 1
    /\ ret = "none"
    /\ exc = "none"
    /\ calls = 0
    /\ cur = 1
    /\ parked = Null
    /\ objects = << >>

\* 'if not contents: return [None] * 22': no image was uploaded
NoContents ==
    /\ pc = "analyze_image"
    /\ pc' = "done"
    /\ UNCHANGED <<attempts, api_failed, response, given, default_structure, eye, ret, exc>>

\* encode_image_contents strips the data-URI prefix of the uploaded image
EncodeImage ==
    /\ pc = "analyze_image"
    /\ pc' = "analyze_with_gpt"
    /\ UNCHANGED <<attempts, api_failed, response, given, default_structure, eye, ret, exc>>

\* analyze_with_gpt: client.chat.completions.create raises; the inner
\* 'except Exception' returns {"error": str(e)}
GptApiError ==
    /\ pc = "analyze_with_gpt"
    /\ attempts' = attempts + 1
    /\ api_failed' = TRUE
    /\ response' = Dict([error |-> Str("Connection error.")])
    /\ pc' = "process_gpt_response"
    /\ UNCHANGED <<given, default_structure, eye, ret, exc>>

\* analyze_with_gpt: the call answers, json.loads raises JSONDecodeError
GptJsonError ==
    /\ pc = "analyze_with_gpt"
    /\ attempts' = attempts + 1
    /\ response' = Dict([error |-> Str("Expecting value")])
    /\ pc' = "process_gpt_response"
    /\ UNCHANGED <<api_failed, given, default_structure, eye, ret, exc>>

\* analyze_with_gpt: the call answers and json.loads returns parsed_response
GptParsed ==
    /\ pc = "analyze_with_gpt"
    /\ \E reply \in Replies : response' = reply
    /\ attempts' = attempts + 1
    /\ pc' = "process_gpt_response"
    /\ UNCHANGED <<api_failed, given, default_structure, eye, ret, exc>>

\* process_gpt_response is entered: default_structure is built
BuildDefault ==
    /\ pc = "process_gpt_response"
    /\ given' = response
    /\ default_structure' = DefaultStructure
    /\ pc' = "check_error"
    /\ UNCHANGED <<attempts, api_failed, response, eye, ret, exc>>

\* 'if "error" in response: ... return default_structure'
CheckError ==
    /\ pc = "check_error"
    /\ LET e == ErrorCheck(response)
       IN  /\ pc' = CASE e = "yes" -> "returned" [] e = "no" -> "eye" [] OTHER -> "raised"
           /\ ret' = IF e = "yes" THEN "default_structure" ELSE ret
           /\ exc' = IF e = "TypeError" THEN "TypeError" ELSE exc
    /\ eye' = 1
    /\ UNCHANGED <<attempts, api_failed, response, given, default_structure>>

\* where the loop goes after the body (or the continue) of pass number eye
AfterEye == IF eye = Len(EyeKeys) THEN "return" ELSE "eye"

\* 'if eye not in response: response[eye] = default_structure[eye]; continue'
EyeLookup ==
    /\ pc = "eye"
    /\ LET key == EyeKeys[eye]
       IN  IF ~IsDict(response)
           THEN /\ pc' = "raised"
                /\ exc' = "TypeError"
                /\ UNCHANGED <<response, eye>>
           ELSE IF key \notin Keys(response)
           THEN /\ response' = SetItem(response, key, default_structure.v[key])
                /\ pc' = AfterEye
                /\ eye' = IF eye = Len(EyeKeys) THEN eye ELSE eye + 1
                /\ exc' = exc
           ELSE /\ pc' = "dril"
                /\ UNCHANGED <<response, eye, exc>>
    /\ UNCHANGED <<attempts, api_failed, given, default_structure, ret>>

\* a statement of the loop body: r is its outcome on eye_data = response[eye]
BodyStep(here, next, r) ==
    /\ pc = here
    /\ response' = SetItem(response, EyeKeys[eye], r.val)
    /\ exc' = r.exc
    /\ pc' = IF r.exc = "none" THEN next ELSE "raised"
    /\ UNCHANGED <<attempts, api_failed, given, default_structure, eye, ret>>

EyeData == response.v[EyeKeys[eye]]

Dril == pc = "dril" /\ BodyStep("dril", "oedeme", StandardizeDril(EyeData))

Oedeme == pc = "oedeme" /\ BodyStep("oedeme", "mle", StandardizeOedeme(EyeData))

Mle == pc = "mle" /\ BodyStep("mle", "ze", StandardizeMembrane(EyeData, "mle"))

Ze == pc = "ze" /\ BodyStep("ze", "points", StandardizeMembrane(EyeData, "ze"))

Points == pc = "points" /\ BodyStep("points", "epaisseur", StandardizePoints(EyeData))

Epaisseur == pc = "epaisseur" /\ BodyStep("epaisseur", "missing", FormatThickness(EyeData))

\* the loop that adds the missing keys ends the pass
Missing ==
    /\ pc = "missing"
    /\ LET r == AddMissing(EyeData, default_structure.v[EyeKeys[eye]])
       IN  /\ response' = SetItem(response, EyeKeys[eye], r.val)
           /\ exc' = r.exc
           /\ pc' = IF r.exc = "none" THEN AfterEye ELSE "raised"
           /\ eye' = IF r.exc = "none" /\ eye # Len(EyeKeys) THEN eye + 1 ELSE eye
    /\ UNCHANGED <<attempts, api_failed, given, default_structure, ret>>

\* 'return response'
Return ==
    /\ pc = "return"
    /\ ret' = "response"
    /\ pc' = "returned"
    /\ UNCHANGED <<attempts, api_failed, response, given, default_structure, eye, exc>>

\* the object analyze_image holds as analysis
Analysis == IF ret = "response" THEN response ELSE default_structure

\* analysis[...]['briding'] = ... if ... is not None else "Absent", four times
WithFormState(a, fs) ==
    LET val(x) == IF x # None THEN Str(x) ELSE Str("Absent")
        l == SetItem(SetItem(a.v["left_eye"], "briding", val(fs.left_briding)),
                     "decollement", val(fs.left_decollement))
        r == SetItem(SetItem(a.v["right_eye"], "briding", val(fs.right_briding)),
                     "decollement", val(fs.right_decollement))
    IN  Dict([k \in Keys(a) |-> CASE k = "left_eye" -> l [] k = "right_eye" -> r [] OTHER -> a.v[k]])

SetFormState ==
    /\ pc = "returned"
    /\ \E fs \in FormStates :
        IF ret = "response"
        THEN response' = WithFormState(response, fs) /\ UNCHANGED default_structure
        ELSE default_structure' = WithFormState(default_structure, fs) /\ UNCHANGED response
    /\ pc' = "results"
    /\ UNCHANGED <<attempts, api_failed, given, eye, ret, exc>>

\* what reading one eye's main values raises: eye_data['dril']['status'],
\* eye_data['oedeme']['status'], eye_data['points_hyperreflectifs']['status']
MainValuesExc(eye_data) ==
    LET sub(f) == IF ~IsDict(eye_data.v[f]) THEN "TypeError"
                  ELSE IF "status" \notin Keys(eye_data.v[f]) THEN "KeyError"
                  ELSE "none"
    IN  IF sub("dril") # "none" THEN sub("dril")
        ELSE IF sub("oedeme") # "none" THEN sub("oedeme")
        ELSE sub("points_hyperreflectifs")

\* what reading oedeme_data[k] 'if oedeme_data['status'] == 'Présent'' raises
DetailExc(eye_data, k) ==
    LET oedeme_data == eye_data.v["oedeme"]
    IN  IF oedeme_data.v["status"] = Str("Pr#sent") /\ k \notin Keys(oedeme_data)
        THEN "KeyError"
        ELSE IF oedeme_data.v["status"] = Str("Pr#sent") /\ k = "taille"
                /\ ~IsStr(oedeme_data.v[k])
        THEN "AttributeError"
        ELSE "none"

\* the exception the loops that build the 22 form values end with: the main
\* values of both eyes, then nb_logette, taille and localisation of both
\* (the thickness loop reads with .get and raises nothing)
ResultsExc(a) ==
    LET reads == <<MainValuesExc(a.v["left_eye"]), MainValuesExc(a.v["right_eye"])>>
        details == <<DetailExc(a.v["left_eye"], "nb_logette"), DetailExc(a.v["right_eye"], "nb_logette"),
                     DetailExc(a.v["left_eye"], "taille"), DetailExc(a.v["right_eye"], "taille"),
                     DetailExc(a.v["left_eye"], "localisation"),
                     DetailExc(a.v["right_eye"], "localisation")>>
        first(q) == IF \E i \in 1..Len(q) : q[i] # "none"
                    THEN q[CHOOSE i \in 1..Len(q) :
                             q[i] # "none" /\ \A j \in 1..(i - 1) : q[j] = "none"]
                    ELSE "none"
    IN  IF first(reads) # "none" THEN first(reads) ELSE first(details)

\* the rest of analyze_image: the form values are read out of analysis
Results ==
    /\ pc = "results"
    /\ exc' = ResultsExc(Analysis)
    /\ pc' = IF ResultsExc(Analysis) = "none" THEN "done" ELSE "callback_raised"
    /\ UNCHANGED <<attempts, api_failed, response, given, default_structure, eye, ret>>

\* a step of one callback run: one call, in one thread
Alone(step) == step /\ UNCHANGED one_call

Next ==
    \/ Alone(NoContents) \/ Alone(EncodeImage)
    \/ Alone(GptApiError) \/ Alone(GptJsonError) \/ Alone(GptParsed)
    \/ Alone(BuildDefault) \/ Alone(CheckError) \/ Alone(EyeLookup)
    \/ Alone(Dril) \/ Alone(Oedeme) \/ Alone(Mle) \/ Alone(Ze)
    \/ Alone(Points) \/ Alone(Epaisseur) \/ Alone(Missing)
    \/ Alone(Return) \/ Alone(SetFormState) \/ Alone(Results)

Spec == Init /\ [][Next]_vars

----------------------------------------------------------------------------
(* process_gpt_response called again and again, starting from {}           *)

\* most calls made in a row
MaxCalls == 6

InitRepeat ==
    /\ pc = "process_gpt_response"
    /\ attempts = 0
    /\ api_failed = FALSE
    /\ response = EmptyDict
    /\ given = Null
    /\ default_structure = Null
    /\ eye = 1
    /\ ret = "none"
    /\ exc = "none"
    /\ calls = 1
    /\ cur = 1
    /\ parked = Null
    /\ objects = << >>

\* the next call: on a new {}, on the object the last call was given (which
\* the call changed in place), or on the value the last call returned
CallAgain ==
    /\ pc = "returned"
    /\ calls < MaxCalls
    /\ \E argument \in {EmptyDict, response, Analysis} : response' = argument
    /\ calls' = calls + 1
    /\ pc' = "process_gpt_response"
    /\ eye' = 1
    /\ ret' = "none"
    /\ UNCHANGED <<attempts, api_failed, given, default_structure, exc, cur, parked, objects>>

\* a statement of a call in a row of calls
InRow(step) == step /\ UNCHANGED one_call

NextRepeat ==
    \/ InRow(BuildDefault) \/ InRow(CheckError) \/ InRow(EyeLookup)
    \/ InRow(Dril) \/ InRow(Oedeme) \/ InRow(Mle) \/ InRow(Ze)
    \/ InRow(Points) \/ InRow(Epaisseur) \/ InRow(Missing)
    \/ InRow(Return)
    \/ CallAgain

SpecRepeat == InitRepeat /\ [][NextRepeat]_vars

----------------------------------------------------------------------------
(* process_gpt_response run from its first to its last statement           *)

\* the body of one pass of the loop, lines 264-320: each statement runs on
\* what the one before left, and an exception ends the pass
LoopBody(eye_data, defaults) ==
    LET dril == StandardizeDril(eye_data)
        oedeme == IF dril.exc # "none" THEN dril ELSE StandardizeOedeme(dril.val)
        mle == IF oedeme.exc # "none" THEN oedeme ELSE StandardizeMembrane(oedeme.val, "mle")
        ze == IF mle.exc # "none" THEN mle ELSE StandardizeMembrane(mle.val, "ze")
        points == IF ze.exc # "none" THEN ze ELSE StandardizePoints(ze.val)
        epaisseur == IF points.exc # "none" THEN points ELSE FormatThickness(points.val)
    IN  IF epaisseur.exc # "none" THEN epaisseur ELSE AddMissing(epaisseur.val, defaults)

\* 'for eye in ["left_eye", "right_eye"]' from pass number i on
RECURSIVE EyeLoop(_, _)
EyeLoop(resp, i) ==
    IF i > Len(EyeKeys) THEN Ok(resp)
    ELSE IF ~IsDict(resp) THEN Raise(resp, "TypeError")
    ELSE LET key == EyeKeys[i]
         IN  IF key \notin Keys(resp)
             THEN EyeLoop(SetItem(resp, key, DefaultStructure.v[key]), i + 1)
             ELSE LET r == LoopBody(resp.v[key], DefaultStructure.v[key])
                  IN  IF r.exc # "none" THEN Raise(SetItem(resp, key, r.val), r.exc)
                      ELSE EyeLoop(SetItem(resp, key, r.val), i + 1)

\* what one call returns or raises when nothing else runs
RunAlone(resp) ==
    LET e == ErrorCheck(resp)
    IN  IF e = "yes" THEN Ok(DefaultStructure)
        ELSE IF e = "TypeError" THEN Raise(resp, "TypeError")
        ELSE EyeLoop(resp, 1)

----------------------------------------------------------------------------
(* Two invocations of process_gpt_response, interleaved statement by       *)
(* statement. The running invocation's locals are the variables, the other *)
(* invocation's are parked; objects numbers the mutable objects each       *)
(* invocation holds and records the ones its statements touched.           *)

Invocations == {1, 2}

ConcInputs ==
    {EmptyDict,
     Dict([left_eye |-> FullEye]),
     Dict([left_eye |-> Dict([mle |-> Str("CONTINUE")]), right_eye |-> FullEye]),
     Dict([error |-> Str("refused")]),
     Dict([left_eye |-> Dict([dril |-> EmptyDict])]),
     Str("ok")}

\* the locals of the running invocation
Frame ==
    [pc |-> pc, response |-> response, given |-> given,
     default_structure |-> default_structure, eye |-> eye, ret |-> ret, exc |-> exc]

EnteredWith(argument) ==
    [pc |-> "process_gpt_response", response |-> argument, given |-> Null,
     default_structure |-> Null, eye |-> 1, ret |-> "none", exc |-> "none"]

InitConc ==
    /\ attempts = 0
    /\ api_failed = FALSE
    /\ calls = 1
    /\ cur = 1
    /\ \E mine \in ConcInputs, other \in ConcInputs :
        /\ pc = "process_gpt_response"
        /\ response = mine
        /\ given = Null
        /\ default_structure = Null
        /\ eye = 1
        /\ ret = "none"
        /\ exc = "none"
        /\ parked = EnteredWith(other)
    /\ objects = [i \in Invocations |-> [input |-> i, template |-> {}, touched |-> {}]]

\* every object some invocation holds
AllObjects == UNION {{objects[i].input} \cup objects[i].template : i \in Invocations}

\* one template object made when the module is loaded
ModuleLevelObject(allocated) == 0

\* 'default_structure = {...}': the dict display makes a new object
NewObject(allocated) == CHOOSE n \in 1..(Cardinality(allocated) + 1) : n \notin allocated

Input == {objects[cur].input}
Template == objects[cur].template

\* a statement of the running invocation, with the objects it reads or writes
Running(step, touchedNow) ==
    /\ step
    /\ objects' = [objects EXCEPT ![cur].touched = @ \cup touchedNow]
    /\ UNCHANGED <<calls, cur, parked>>

\* the entry: json.dumps(response) is printed, then the template is built
ConcBuildDefault ==
    /\ BuildDefault
    /\ LET made == NewObject(AllObjects)
       IN  objects' = [objects EXCEPT ![cur].template = {made},
                                      ![cur].touched = @ \cup Input \cup {made}]
    /\ UNCHANGED <<calls, cur, parked>>

\* the scheduler lets the other invocation run
Switch ==
    /\ parked.pc \notin {"returned", "raised"}
    /\ cur' = IF cur = 1 THEN 2 ELSE 1
    /\ parked' = Frame
    /\ pc' = parked.pc
    /\ response' = parked.response
    /\ given' = parked.given
    /\ default_structure' = parked.default_structure
    /\ eye' = parked.eye
    /\ ret' = parked.ret
    /\ exc' = parked.exc
    /\ UNCHANGED <<attempts, api_failed, calls, objects>>

NextConc ==
    \/ ConcBuildDefault
    \/ Running(CheckError, Input)
    \/ Running(EyeLookup, Input \cup Template)
    \/ Running(Dril, Input) \/ Running(Oedeme, Input)
    \/ Running(Mle, Input) \/ Running(Ze, Input)
    \/ Running(Points, Input) \/ Running(Epaisseur, Input)
    \/ Running(Missing, Input \cup Template)
    \/ Running(Return, {})
    \/ Switch

SpecConc == InitConc /\ [][NextConc]_vars

----------------------------------------------------------------------------
(* Properties                                                              *)

EyeKeySet == {EyeKeys[i] : i \in 1..Len(EyeKeys)}

\* process_gpt_response has just returned: Analysis is the value it returned
JustReturned == pc = "returned"

\* the loop over the eyes ran (the input carried no error marker)
Normalized == JustReturned /\ ret = "response"

GivenEyeIsObject(k) == HasKey(given, k) /\ IsDict(given.v[k])

\* C1: process_gpt_response is total: whatever decoded JSON value it is
\* given, the call returns and never raises.
C1_NeverRaises == pc # "raised"

CompleteEye(e) ==
    /\ IsDict(e)
    /\ \A f \in Keys(DefaultEye) :
        /\ f \in Keys(e)
        /\ IsDict(DefaultEye.v[f]) =>
              IsDict(e.v[f]) /\ Keys(DefaultEye.v[f]) \subseteq Keys(e.v[f])

\* C2: for every input object whose eye values, when present, are objects,
\* both eyes of the result have every field of the default record, the
\* sub-keys of its nested objects included.
C2_Complete ==
    (/\ JustReturned
     /\ IsDict(given)
     /\ \A k \in EyeKeySet : k \in Keys(given) => IsDict(given.v[k]))
    => \A k \in EyeKeySet : CompleteEye(Analysis.v[k])

HasLabel(e, f, labels) ==
    /\ IsDict(e) /\ f \in Keys(e)
    /\ IsDict(e.v[f]) /\ "status" \in Keys(e.v[f])
    /\ e.v[f].v["status"] \in {Str(l) : l \in labels}

\* C3: for every input and both eyes, the result's dril.status is
\* "Présente" or "Absente", its oedeme.status "Présent" or "Absent" and its
\* points_hyperreflectifs.status "Présents" or "Absents", whatever shape the
\* input gave these fields.
C3_EnumClosure ==
    JustReturned =>
        \A k \in EyeKeySet :
            /\ HasLabel(Analysis.v[k], "dril", {"Pr#sente", "Absente"})
            /\ HasLabel(Analysis.v[k], "oedeme", {"Pr#sent", "Absent"})
            /\ HasLabel(Analysis.v[k], "points_hyperreflectifs", {"Pr#sents", "Absents"})

\* C4: an input object with the key "error" makes process_gpt_response
\* return the default record for both eyes (the template itself, nothing
\* taken from the input), whatever other keys the input carries, and the
\* call does not raise.
C4_ErrorShortCircuit ==
    (HasKey(given, "error") /\ pc # "check_error") =>
        /\ exc = "none"
        /\ ret = "default_structure"
        /\ JustReturned => Analysis = DefaultStructure

C4_Witness ==
    /\ JustReturned
    /\ HasKey(given, "error")
    /\ GivenEyeIsObject("left_eye")
    /\ given.v["left_eye"] # DefaultEye

\* the value a supplied top-level field is normalized to, the field taken alone
NormalizedField(f, x) ==
    LET alone == Dict(f :> x)
    IN  CASE f = "dril" -> StandardizeDril(alone).val.v[f]
          [] f = "oedeme" -> StandardizeOedeme(alone).val.v[f]
          [] f \in {"mle", "ze"} -> StandardizeMembrane(alone, f).val.v[f]
          [] f = "points_hyperreflectifs" -> StandardizePoints(alone).val.v[f]
          [] f = "epaisseur_retinienne" -> FormatThickness(alone).val.v[f]
          [] OTHER -> x

OnlyEye(k) == IsDict(given) /\ Keys(given) = {k}

\* C5: for an input with only one eye key, the other eye of the result is
\* the default record exactly, and the supplied eye is merged field by
\* field: a supplied top-level field keeps its normalized input value, an
\* omitted one takes that field's default value.
C5_MissingEyeDefaulting ==
    \A k \in EyeKeySet :
        (JustReturned /\ OnlyEye(k)) =>
            /\ \A o \in EyeKeySet \ {k} : Analysis.v[o] = DefaultEye
            /\ Keys(Analysis.v[k]) = Keys(given.v[k]) \cup Keys(DefaultEye)
            /\ \A f \in Keys(Analysis.v[k]) :
                  Analysis.v[k].v[f] =
                      IF f \in Keys(given.v[k])
                      THEN NormalizedField(f, given.v[k].v[f])
                      ELSE DefaultEye.v[f]

C5_Witness ==
    /\ JustReturned
    /\ OnlyEye("left_eye")
    /\ Keys(given.v["left_eye"]) = {"dril", "mle"}
    /\ given.v["left_eye"].v["mle"] = Str("PARTIELLEMENT INTERROMPUE")
    /\ Analysis.v["left_eye"].v["mle"] = Str("Partiellement interrompue")
    /\ Analysis.v["left_eye"].v["oedeme"] = DefaultEye.v["oedeme"]
    /\ Analysis.v["right_eye"] = DefaultEye

\* the eye k of the input is an object whose oedeme is an object with a
\* string taille
HasTaille(k) ==
    /\ GivenEyeIsObject(k)
    /\ HasKey(given.v[k], "oedeme")
    /\ HasKey(given.v[k].v["oedeme"], "taille")
    /\ IsStr(given.v[k].v["oedeme"].v["taille"])

TailleIn(k) == given.v[k].v["oedeme"].v["taille"].v
TailleOut(k) == Analysis.v[k].v["oedeme"].v["taille"]

SmallWords == {Chars("small"), Chars("<100"), Chars("petit")}

\* C6 as stated: "small", "<100" and "petit" in any letter case give
\* "petite", "large" gives "grande" and ">200" gives "volumineuse".
C6_SizeTableAsStated ==
    \A k \in EyeKeySet :
        (Normalized /\ HasTaille(k)) =>
            /\ lower(TailleIn(k)) \in SmallWords => TailleOut(k) = Str("petite")
            /\ TailleIn(k) = Chars("large") => TailleOut(k) = Str("grande")
            /\ TailleIn(k) = Chars(">200") => TailleOut(k) = Str("volumineuse")

\* C6: in an eye the normalizer processes, whose oedeme is an object with a
\* string taille, "small", "<100" and "petit" in any letter case give
\* "petite", "medium" gives "grande", and "large" and ">200" give
\* "volumineuse".
C6_SizeTable ==
    \A k \in EyeKeySet :
        (Normalized /\ HasTaille(k)) =>
            /\ lower(TailleIn(k)) \in SmallWords => TailleOut(k) = Str("petite")
            /\ TailleIn(k) = Chars("medium") => TailleOut(k) = Str("grande")
            /\ TailleIn(k) = Chars("large") => TailleOut(k) = Str("volumineuse")
            /\ TailleIn(k) = Chars(">200") => TailleOut(k) = Str("volumineuse")

C6_Witness ==
    /\ Normalized
    /\ HasTaille("left_eye")
    /\ TailleIn("left_eye") = Chars("large")
    /\ TailleOut("left_eye") = Str("volumineuse")

UnknownTaille(k) == HasTaille(k) /\ lower(TailleIn(k)) \notin DOMAIN taille_mapping

\* C7 as stated: a string taille whose lower-cased form is no key of the
\* table comes out character for character as the input supplied it.
C7_UnknownSizeUnchanged ==
    \A k \in EyeKeySet :
        (Normalized /\ UnknownTaille(k)) => TailleOut(k) = StrOf(TailleIn(k))

\* C7: a string taille whose lower-cased form is no key of the table comes
\* out lower-cased, and otherwise as the input supplied it.
C7_UnknownSizeLowerCased ==
    \A k \in EyeKeySet :
        (Normalized /\ UnknownTaille(k)) => TailleOut(k) = StrOf(lower(TailleIn(k)))

C7_Witness ==
    /\ Normalized
    /\ UnknownTaille("left_eye")
    /\ TailleIn("left_eye") = Chars("Huge")
    /\ TailleOut("left_eye") = Str("huge")

ThicknessIn(k) == given.v[k].v["epaisseur_retinienne"]
ThicknessOut(k) == Analysis.v[k].v["epaisseur_retinienne"]

\* C8: in an eye the normalizer processes, an epaisseur_retinienne that is
\* a single string s comes out as {central: s, superieur: "", inferieur: "",
\* nasal: "", temporal: ""}, and one that is an object comes out as supplied.
C8_ThicknessFlattening ==
    \A k \in EyeKeySet :
        (Normalized /\ GivenEyeIsObject(k) /\ HasKey(given.v[k], "epaisseur_retinienne")) =>
            /\ IsStr(ThicknessIn(k)) =>
                  ThicknessOut(k) =
                      Dict([central |-> ThicknessIn(k), superieur |-> Str(""),
                            inferieur |-> Str(""), nasal |-> Str(""), temporal |-> Str("")])
            /\ IsDict(ThicknessIn(k)) => ThicknessOut(k) = ThicknessIn(k)

C8_Witness ==
    /\ Normalized
    /\ GivenEyeIsObject("left_eye")
    /\ HasKey(given.v["left_eye"], "epaisseur_retinienne")
    /\ ThicknessIn("left_eye") = Str("250um central")
    /\ ThicknessOut("left_eye").v["central"] = Str("250um central")
    /\ ThicknessOut("left_eye").v["nasal"] = Str("")

\* C9: process_gpt_response leaves its argument as it was and returns a
\* newly allocated object, so that what the caller writes into the result
\* never changes the input.
C9_Pure == ret # "none" => (response = given /\ ret # "response")

\* C10: when the vision-model call fails it is attempted again; the
\* error-marked object is returned only after more than one attempt.
C10_RetriedBeforeError == api_failed => attempts > 1


\* str.strip() of blanks: what trimming the surrounding whitespace leaves
Trimmed(s) ==
    LET inked == {i \in 1..Len(s) : s[i] # " "}
    IN  IF inked = {} THEN <<>>
        ELSE SubSeq(s, CHOOSE i \in inked : \A j \in inked : i <= j,
                       CHOOSE i \in inked : \A j \in inked : j <= i)

StatusFields ==
    [dril |-> <<"Pr#sente", "Absente">>,
     oedeme |-> <<"Pr#sent", "Absent">>,
     points_hyperreflectifs |-> <<"Pr#sents", "Absents">>]

\* the eye k of the input is an object whose field f is an object with a
\* string status
HasStatus(k, f) ==
    /\ GivenEyeIsObject(k)
    /\ HasKey(given.v[k], f)
    /\ HasKey(given.v[k].v[f], "status")
    /\ IsStr(given.v[k].v[f].v["status"])

StatusIn(k, f) == given.v[k].v[f].v["status"].v
StatusOut(k, f) == Analysis.v[k].v[f].v["status"]

\* the status the classification of C13 gives s, for the labels of a field
ClassifiedStatus(s, labels) ==
    LET folded == lower(Trimmed(s))
    IN  IF folded = lower(Chars(labels[1])) THEN Chars(labels[1])
        ELSE IF folded = lower(Chars(labels[2])) THEN Chars(labels[2])
        ELSE IF Contains(Chars("present"), lower(s)) THEN Chars(labels[1])
        ELSE Chars(labels[2])

\* C13: an object with a string status s is normalized to the field's label
\* that s equals after trimming the surrounding whitespace and ignoring
\* letter case; otherwise to the Present label when the lower-cased s
\* contains "present", and to the Absent label in every other case.
C13_StatusClassification ==
    \A k \in EyeKeySet : \A f \in DOMAIN StatusFields :
        (Normalized /\ HasStatus(k, f)) =>
            StatusOut(k, f) = StrOf(ClassifiedStatus(StatusIn(k, f), StatusFields[f]))

MembraneLabels ==
    {Chars("Continue"), Chars("Partiellement interrompue"), Chars("Compl$tement interrompue")}

HasMembrane(k, f) ==
    GivenEyeIsObject(k) /\ HasKey(given.v[k], f) /\ IsStr(given.v[k].v[f])

\* C14: a string mle or ze is classified by the first of the tokens
\* "continu", "partiel", "complet" its lower-cased form contains and left
\* unchanged when it contains none; so each of the three labels, written in
\* any letter case, comes out as the canonical label.
C14_MembraneClassification ==
    \A k \in EyeKeySet : \A f \in {"mle", "ze"} :
        (Normalized /\ HasMembrane(k, f)) =>
            LET value == given.v[k].v[f].v
                l == lower(value)
                out == Analysis.v[k].v[f]
            IN  /\ out = StrOf(IF Contains(Chars("continu"), l) THEN Chars("Continue")
                               ELSE IF Contains(Chars("partiel"), l)
                                    THEN Chars("Partiellement interrompue")
                               ELSE IF Contains(Chars("complet"), l)
                                    THEN Chars("Compl$tement interrompue")
                               ELSE value)
                /\ \A label \in MembraneLabels : l = lower(label) => out = StrOf(label)


\* C11: starting from {}, every call in a row of calls (each on a new {},
\* on the object given before or on the value returned before) returns, and
\* returns exactly the default record for both eyes.
C11_IdempotentDefaulting ==
    /\ pc # "raised"
    /\ JustReturned => (Analysis = DefaultStructure /\ exc = "none")

\* a later call, given the object an earlier call had filled in, has returned
C11_Witness ==
    /\ JustReturned
    /\ calls > 1
    /\ given = DefaultStructure
    /\ ret = "response"


FrameOf(i) == IF i = cur THEN Frame ELSE parked

\* the mutable objects reachable from invocation i's template, input or output
Reach(i) == {objects[i].input} \cup objects[i].template

\* a finished invocation returned (or raised) what the call does alone
AsAlone(f) ==
    /\ f.pc = "returned" =>
        /\ RunAlone(f.given).exc = "none"
        /\ RunAlone(f.given).val = IF f.ret = "response" THEN f.response
                                    ELSE f.default_structure
    /\ f.pc = "raised" => RunAlone(f.given).exc = f.exc

\* C12: two invocations on two different input objects, interleaved
\* statement by statement in any order: each returns (or raises) exactly
\* what it does when run alone, and no statement of one touches a mutable
\* object reachable from the other's template, input or output.
C12_ConcurrentIsolation ==
    \A i \in Invocations :
        /\ AsAlone(FrameOf(i))
        /\ \A j \in Invocations \ {i} : objects[i].touched \cap Reach(j) = {}

\* invocation 1 has returned its changed input after running between two
\* statements of invocation 2, which built its template first and is in the
\* middle of its loop
C12_Witness ==
    /\ cur = 1
    /\ pc = "returned"
    /\ ret = "response"
    /\ response # given
    /\ parked.pc = "mle"
    /\ objects[2].template = {3}
    /\ objects[1].template = {4}
    /\ objects[1].touched = {1, 4}

====
